---- MODULE Spec2Model ----
(***************************************************************************)
(* Model of the Canary web client's session handling: the auth service     *)
(* (registerUser, loginUser, getUserProfile, logoutUser, getAuthToken,     *)
(* getStoredUser, isAuthenticated), the AuthProvider context               *)
(* (initializeAuth, login, logout), the login form's handleSubmit and the  *)
(* AppContent gate that decides which screen is mounted.                   *)
(***************************************************************************)
EXTENDS Integers, Sequences, FiniteSets, TLC

VARIABLES
    storage,      \* localStorage: [authToken, user], each a string or Absent
    user,         \* AuthProvider state `user`
    loading,      \* AuthProvider state `loading`
    initPc,       \* position of initializeAuth: "start", "waiting", "done"
    profReq,      \* in-flight GET /auth/profile: "none", "init", "direct"
    authReq,      \* in-flight POST of the login form: "none", "login", "register"
    formLoading,  \* CanaryLogin state `loading`
    now,          \* Date.now() / 1000
    initRun,      \* what the current run of initializeAuth has done so far
    lastOp,       \* the operation that produced the current state
    apiReq,       \* a request function of the API client waiting for its answer
    apiLast,      \* how the last call of a request function ended
    feed,         \* NewsFeed state: articles, loading, filter, refreshing, error
    feedReqs,     \* the news requests of NewsFeed that are on the wire
    feedLast,     \* the last thing that happened to NewsFeed
    filterLoad,   \* how the load of the last handleFilterChange call stands
    modal,        \* AIModal: "closed", "listing" (getAllChats waiting), "open"
    chats,        \* AIModal state `chats`, as the set of their chatIds
    currentChatId,\* AIModal state `currentChatId`; 0 stands for null
    messages,     \* AIModal state `messages`
    sends,        \* the calls of handleSendMessage, by order of issue
    chatLoads,    \* the chats whose getChatById, sent by loadChat, is waiting
    srvChats,     \* the chats the server holds: their messages, by chatId
    chatClock,    \* the last reading of Date.now() in AIModal
    chatLast      \* the last thing that happened to AIModal, kept for rollbacks

authVars == <<storage, user, loading, initPc, profReq, authReq, formLoading,
              now, initRun, lastOp>>

\* the request functions called on their own
apiVars == <<apiReq, apiLast>>

\* the NewsFeed component
newsVars == <<feed, feedReqs, feedLast, filterLoad>>

\* the AIModal component
chatVars == <<modal, chats, currentChatId, messages, sends, chatLoads,
              srvChats, chatClock, chatLast>>

vars == <<authVars, apiVars, newsVars, chatVars>>

\* what each part leaves alone
outsideAuth == <<apiVars, newsVars, chatVars>>
outsideApi == <<newsVars, chatVars>>
outsideNews == <<authVars, apiVars, chatVars>>
outsideChat == <<authVars, apiVars, newsVars>>

\* Largest clock reading the model explores.
MaxTime == 3

\* Number of handleSendMessage calls the model explores.
MaxSends == 2

-----------------------------------------------------------------------------
(* JavaScript values *)

Null == "<null>"
Undefined == "<undefined>"
\* localStorage.getItem of a key that is not there
Absent == "<absent>"

UserObjs == {"u1", "u2"}

\* !!v for the values a user field can take
Truthy(v) == v \notin {Null, Undefined}

-----------------------------------------------------------------------------
(* Tokens: what a server may send as data.token *)

Tokens == {"tNoSeg", "tBadB64", "tBadJson", "tNullPayload", "tNoExp",
           "tExp1", "tExp2"}

\* token.split('.')[1]
PayloadSegment(token) ==
    CASE token = "tNoSeg"       -> Undefined
      [] token = "tBadB64"      -> "seg:@@"
      [] token = "tBadJson"     -> "seg:notjson"
      [] token = "tNullPayload" -> "seg:null"
      [] token = "tNoExp"       -> "seg:{}"
      [] token = "tExp1"        -> "seg:{exp:1}"
      [] token = "tExp2"        -> "seg:{exp:2}"

\* atob(seg): undefined is coerced to the 9-character string "undefined",
\* which is not valid base64; so is "@@"
Atob(seg) ==
    CASE seg = Undefined      -> [threw |-> TRUE,  text |-> ""]
      [] seg = "seg:@@"       -> [threw |-> TRUE,  text |-> ""]
      [] seg = "seg:notjson"  -> [threw |-> FALSE, text |-> "notjson"]
      [] seg = "seg:null"     -> [threw |-> FALSE, text |-> "null"]
      [] seg = "seg:{}"       -> [threw |-> FALSE, text |-> "{}"]
      [] seg = "seg:{exp:1}"  -> [threw |-> FALSE, text |-> "{exp:1}"]
      [] seg = "seg:{exp:2}"  -> [threw |-> FALSE, text |-> "{exp:2}"]

\* JSON.parse of a payload text
ParsePayload(text) ==
    CASE text = "notjson" -> [threw |-> TRUE,  isNull |-> FALSE, hasExp |-> FALSE, exp |-> 0]
      [] text = "null"    -> [threw |-> FALSE, isNull |-> TRUE,  hasExp |-> FALSE, exp |-> 0]
      [] text = "{}"      -> [threw |-> FALSE, isNull |-> FALSE, hasExp |-> FALSE, exp |-> 0]
      [] text = "{exp:1}" -> [threw |-> FALSE, isNull |-> FALSE, hasExp |-> TRUE,  exp |-> 1]
      [] text = "{exp:2}" -> [threw |-> FALSE, isNull |-> FALSE, hasExp |-> TRUE,  exp |-> 2]

\* JSON.parse(atob(token.split('.')[1]))
DecodePayload(token) ==
    LET a == Atob(PayloadSegment(token)) IN
    IF a.threw
    THEN [threw |-> TRUE, isNull |-> FALSE, hasExp |-> FALSE, exp |-> 0]
    ELSE ParsePayload(a.text)

-----------------------------------------------------------------------------
(* localStorage *)

EmptyStorage == [authToken |-> Absent, user |-> Absent]

\* JSON.stringify(v), then setItem's coercion of its argument to a string:
\* JSON.stringify(undefined) is undefined, stored as the string "undefined"
StoredUserString(v) ==
    CASE v = Undefined -> "undefined"
      [] v = Null      -> "null"
      [] v = "u1"      -> "{u1}"
      [] v = "u2"      -> "{u2}"

\* JSON.parse of a stored user string
ParseUser(s) ==
    CASE s = "undefined" -> [threw |-> TRUE,  value |-> Undefined]
      [] s = "null"      -> [threw |-> FALSE, value |-> Null]
      [] s = "{u1}"      -> [threw |-> FALSE, value |-> "u1"]
      [] s = "{u2}"      -> [threw |-> FALSE, value |-> "u2"]

RemoveBoth(st) == [st EXCEPT !.authToken = Absent, !.user = Absent]

\* logoutUser() that removes nothing
logoutUser_noRemove(st) == st

\* logoutUser() that removes the token only
logoutUser_tokenOnly(st) == [st EXCEPT !.authToken = Absent]

logoutUser(st) == RemoveBoth(st)

getAuthToken(st) == IF st.authToken = Absent THEN Null ELSE st.authToken

getStoredUser(st) ==
    IF st.user = Absent
    THEN [threw |-> FALSE, value |-> Null]
    ELSE ParseUser(st.user)

\* isAuthenticated() whose expiry branch forgets the cached user
isAuthenticated_keepsUser(st, t) ==
    IF st.authToken = Absent
    THEN [ret |-> FALSE, threw |-> FALSE, storage |-> st]
    ELSE LET payload == DecodePayload(st.authToken) IN
         IF payload.threw \/ payload.isNull
         THEN [ret |-> FALSE, threw |-> FALSE, storage |-> RemoveBoth(st)]
         ELSE IF payload.hasExp /\ payload.exp < t
              THEN [ret |-> FALSE, threw |-> FALSE,
                    storage |-> [st EXCEPT !.authToken = Absent]]
              ELSE [ret |-> TRUE, threw |-> FALSE, storage |-> st]

\* isAuthenticated() without its try/catch
isAuthenticated_noCatch(st, t) ==
    IF st.authToken = Absent
    THEN [ret |-> FALSE, threw |-> FALSE, storage |-> st]
    ELSE LET payload == DecodePayload(st.authToken) IN
         IF payload.threw \/ payload.isNull
         THEN [ret |-> FALSE, threw |-> TRUE, storage |-> st]
         ELSE IF payload.hasExp /\ payload.exp < t
              THEN [ret |-> FALSE, threw |-> FALSE, storage |-> RemoveBoth(st)]
              ELSE [ret |-> TRUE, threw |-> FALSE, storage |-> st]

\* the try block decodes the payload and compares exp; the catch block
\* absorbs every error raised in it
isAuthenticated(st, t) ==
    IF st.authToken = Absent
    THEN [ret |-> FALSE, threw |-> FALSE, storage |-> st]
    ELSE LET payload == DecodePayload(st.authToken) IN
         IF payload.threw \/ payload.isNull
         THEN [ret |-> FALSE, threw |-> FALSE, storage |-> RemoveBoth(st)]
         ELSE IF payload.hasExp /\ payload.exp < t
              THEN [ret |-> FALSE, threw |-> FALSE, storage |-> RemoveBoth(st)]
              ELSE [ret |-> TRUE, threw |-> FALSE, storage |-> st]

-----------------------------------------------------------------------------
(* Server responses *)

\* What fetch() and response.json() can produce for POST /auth/login and
\* POST /auth/register.  token and user are the fields of the JSON body.
AuthResponses ==
    [kind : {"network", "httpError", "okBadJson"}, token : {Undefined}, user : {Undefined}]
    \cup
    [kind : {"ok"}, token : Tokens \cup {Undefined},
                    user : UserObjs \cup {Null, Undefined}]

\* What fetch() and response.json() can produce for GET /auth/profile.
ProfileResponses ==
    [kind : {"network", "401", "otherStatus", "okBadJson"}, data : {Undefined}]
    \cup
    [kind : {"ok"}, data : UserObjs \cup {Null}]

-----------------------------------------------------------------------------
(* auth-service.js: the continuation of each request function once the     *)
(* response is there                                                       *)

\* registerUser() that returns the data without storing it
registerUser_noStore(st, resp) ==
    [threw |-> resp.kind # "ok", data |-> resp, storage |-> st]

registerUser(st, resp) ==
    IF resp.kind # "ok"
    THEN [threw |-> TRUE, data |-> resp, storage |-> st]
    ELSE [threw |-> FALSE, data |-> resp,
          storage |-> IF resp.token # Undefined
                      THEN [authToken |-> resp.token,
                            user |-> StoredUserString(resp.user)]
                      ELSE st]

\* loginUser() that drops the stored session when the login is refused
loginUser_clearsOnFailure(st, resp) ==
    IF resp.kind # "ok"
    THEN [threw |-> TRUE, data |-> resp, storage |-> RemoveBoth(st)]
    ELSE [threw |-> FALSE, data |-> resp,
          storage |-> IF resp.token # Undefined
                      THEN [authToken |-> resp.token,
                            user |-> StoredUserString(resp.user)]
                      ELSE st]

loginUser(st, resp) ==
    IF resp.kind # "ok"
    THEN [threw |-> TRUE, data |-> resp, storage |-> st]
    ELSE [threw |-> FALSE, data |-> resp,
          storage |-> IF resp.token # Undefined
                      THEN [authToken |-> resp.token,
                            user |-> StoredUserString(resp.user)]
                      ELSE st]

\* getUserProfile up to its await: TRUE when a request goes out
getUserProfileIssues(st) == st.authToken # Absent

\* getUserProfile() whose 401 branch removes the token only
getUserProfile_401TokenOnly(st, resp) ==
    CASE resp.kind = "ok" ->
            [threw |-> FALSE, err |-> "", data |-> resp.data, storage |-> st]
      [] resp.kind = "401" ->
            [threw |-> TRUE, err |-> "Session expired", data |-> Undefined,
             storage |-> [st EXCEPT !.authToken = Absent]]
      [] resp.kind \in {"otherStatus", "network", "okBadJson"} ->
            [threw |-> TRUE, err |-> "Failed to fetch profile", data |-> Undefined,
             storage |-> st]

\* getUserProfile() that clears the storage on every refusal
getUserProfile_clearsOnAnyStatus(st, resp) ==
    CASE resp.kind = "ok" ->
            [threw |-> FALSE, err |-> "", data |-> resp.data, storage |-> st]
      [] resp.kind = "401" ->
            [threw |-> TRUE, err |-> "Session expired", data |-> Undefined,
             storage |-> RemoveBoth(st)]
      [] resp.kind = "otherStatus" ->
            [threw |-> TRUE, err |-> "Failed to fetch profile", data |-> Undefined,
             storage |-> RemoveBoth(st)]
      [] resp.kind \in {"network", "okBadJson"} ->
            [threw |-> TRUE, err |-> "fetch or json error", data |-> Undefined,
             storage |-> st]

\* getUserProfile after its await
getUserProfile(st, resp) ==
    CASE resp.kind = "ok" ->
            [threw |-> FALSE, err |-> "", data |-> resp.data, storage |-> st]
      [] resp.kind = "401" ->
            [threw |-> TRUE, err |-> "Session expired", data |-> Undefined,
             storage |-> RemoveBoth(st)]
      [] resp.kind = "otherStatus" ->
            [threw |-> TRUE, err |-> "Failed to fetch profile", data |-> Undefined,
             storage |-> st]
      [] resp.kind \in {"network", "okBadJson"} ->
            [threw |-> TRUE, err |-> "fetch or json error", data |-> Undefined,
             storage |-> st]

-----------------------------------------------------------------------------
(* AuthContext.jsx *)

\* login() that reads the wrong field of the response
login_wrongField(userData) == userData.token

\* login(userData): setUser(userData.user)
login(userData) == userData.user

\* logout() that clears the React state only
logout_stateOnly(st, u) == [storage |-> st, user |-> Null]

\* logout() that clears the storage only
logout_storageOnly(st, u) == [storage |-> logoutUser(st), user |-> u]

\* logout(): logoutUser(); setUser(null)
logout(st, u) == [storage |-> logoutUser(st), user |-> Null]

\* the value exposed as isAuthenticated
IsAuthenticatedFlag == Truthy(user)

\* an outer catch that rethrows
OuterCatchRethrows(threw) == threw

\* catch (error) { console.error(...) } of initializeAuth: TRUE when the
\* error leaves the function
OuterCatchPropagates(threw) == FALSE

NoRun == [tokenValid |-> FALSE, storedUser |-> Undefined, requested |-> FALSE,
          verify |-> "none", setLoadingCalls |-> 0, lastChange |-> "none",
          propagated |-> FALSE]

NoOp == [op |-> "none"]

\* no request function is waiting
NoReq == [op |-> "none"]

\* no request function has been called yet
NoCall == [op |-> "none"]

\* NewsFeed's useState initial values
InitialFeed == [articles |-> "[]", loading |-> TRUE, filter |-> "all",
                refreshing |-> FALSE, error |-> Null]

\* NewsFeed is not mounted yet
NoFeedEvent == [ev |-> "none"]

\* handleFilterChange has not been called yet
NoFilterLoad == [st |-> "none", data |-> Undefined]

\* a handleSendMessage call that has not been made
IdleSend == [pc |-> "idle", chatId |-> 0, msgId |-> 0, created |-> FALSE,
             overlapped |-> FALSE, reply |-> FALSE]

\* AIModal has not been opened yet
NoChatEvent == [ev |-> "none", send |-> 0, before |-> <<>>]

Init ==
    /\ modal = "closed"
    /\ chats = {}
    /\ currentChatId = 0
    /\ messages = <<>>
    /\ sends = [k \in 1..MaxSends |-> IdleSend]
    /\ chatLoads = {}
    /\ srvChats = <<>>
    /\ chatClock = 1
    /\ chatLast = NoChatEvent
    /\ apiReq = NoReq
    /\ apiLast = NoCall
    /\ feed = InitialFeed
    /\ feedReqs = {}
    /\ feedLast = NoFeedEvent
    /\ filterLoad = NoFilterLoad
    /\ storage = EmptyStorage
    /\ user = Null
    /\ loading = TRUE
    /\ initPc = "start"
    /\ profReq = "none"
    /\ authReq = "none"
    /\ formLoading = FALSE
    /\ now = 0
    /\ initRun = NoRun
    /\ lastOp = NoOp

\* TRUE when the step put a new request on the wire
Issued(oldProf, newProf, oldAuth, newAuth) ==
    \/ newProf # "none" /\ newProf # oldProf
    \/ newAuth # "none" /\ newAuth # oldAuth

\* initializeAuth from its call to its first await, or to its end when no
\* await is reached
InitializeStart ==
    /\ UNCHANGED outsideAuth
    /\ initPc = "start"
    /\ LET auth    == isAuthenticated(storage, now)
           st1     == auth.storage
           stored  == getStoredUser(st1)
           verify  == ~auth.threw /\ auth.ret /\ ~stored.threw /\ Truthy(stored.value)
           issues  == verify /\ getUserProfileIssues(st1)
           \* getUserProfile() rejected before any request: inner catch
           refused == IF verify /\ ~issues THEN logout(st1, stored.value)
                      ELSE [storage |-> st1,
                            user |-> IF verify THEN stored.value ELSE user]
       IN
       /\ storage' = refused.storage
       /\ user' = refused.user
       /\ IF issues
          THEN /\ profReq' = "init"
               /\ initPc' = "waiting"
               /\ loading' = loading
               /\ initRun' = [initRun EXCEPT !.tokenValid = TRUE,
                                             !.storedUser = stored.value,
                                             !.requested = TRUE,
                                             !.lastChange = "setUser"]
          ELSE /\ profReq' = profReq
               /\ initPc' = "done"
               /\ loading' = FALSE
               /\ initRun' = [initRun EXCEPT
                     !.tokenValid = auth.ret,
                     !.storedUser = IF auth.ret /\ ~stored.threw
                                    THEN stored.value ELSE Undefined,
                     !.setLoadingCalls = @ + 1,
                     !.lastChange = "setLoading",
                     !.propagated =
                         OuterCatchPropagates(
                             auth.threw \/ (auth.ret /\ stored.threw))]
       /\ UNCHANGED <<authReq, formLoading, now>>
       /\ lastOp' = [op |-> "initialize", token |-> storage.authToken,
                     now |-> now, ret |-> auth.ret, threw |-> auth.threw,
                     afterLogout |-> (lastOp.op = "reload" /\ lastOp.afterLogout),
                     issued |-> Issued(profReq, profReq', authReq, authReq')]

\* initializeAuth from the settling of getUserProfile() to its end
InitializeResume ==
    /\ UNCHANGED outsideAuth
    /\ initPc = "waiting"
    /\ profReq = "init"
    /\ \E resp \in ProfileResponses :
         LET r   == getUserProfile(storage, resp)
             out == IF r.threw THEN logout(r.storage, user)
                    ELSE [storage |-> r.storage, user |-> r.data]
         IN
         /\ storage' = out.storage
         /\ user' = out.user
         /\ initRun' = [initRun EXCEPT !.verify = resp.kind,
                                       !.setLoadingCalls = @ + 1,
                                       !.lastChange = "setLoading"]
         /\ lastOp' = [op |-> "initializeResume", resp |-> resp, issued |-> FALSE]
    /\ loading' = FALSE
    /\ initPc' = "done"
    /\ profReq' = "none"
    /\ UNCHANGED <<authReq, formLoading, now>>

\* The login page is what AppContent renders
LoginPageMounted == ~loading /\ ~IsAuthenticatedFlag

\* handleSubmit whose setLoading(true) reaches the loading flag of the
\* context instead of the form's own
HandleSubmit_contextLoading(view) ==
    /\ UNCHANGED outsideAuth
    /\ LoginPageMounted
    /\ ~formLoading
    /\ authReq = "none"
    /\ authReq' = view
    /\ formLoading' = TRUE
    /\ loading' = TRUE
    /\ UNCHANGED <<storage, user, initPc, profReq, now, initRun>>
    /\ lastOp' = [op |-> "submit", view |-> view,
                  issued |-> Issued(profReq, profReq', authReq, authReq')]

\* CanaryLogin.handleSubmit up to its await; the submit button is disabled
\* while the form's loading flag is set
HandleSubmit(view) ==
    /\ UNCHANGED outsideAuth
    /\ LoginPageMounted
    /\ ~formLoading
    /\ authReq = "none"
    /\ authReq' = view
    /\ formLoading' = TRUE
    /\ UNCHANGED <<storage, user, loading, initPc, profReq, now, initRun>>
    /\ lastOp' = [op |-> "submit", view |-> view,
                  issued |-> Issued(profReq, profReq', authReq, authReq')]

\* CanaryLogin.handleSubmit from the settling of loginUser/registerUser to
\* its end: login(res) on success, setError otherwise, setLoading(false)
HandleSubmitResume ==
    /\ UNCHANGED outsideAuth
    /\ authReq # "none"
    /\ \E resp \in AuthResponses :
         LET r == IF authReq = "login" THEN loginUser(storage, resp)
                  ELSE registerUser(storage, resp)
         IN
         /\ storage' = r.storage
         /\ user' = IF r.threw THEN user ELSE login(r.data)
         /\ authReq' = "none"
         /\ lastOp' = [op |-> "submitResume", view |-> authReq, resp |-> resp,
                       loginCalled |-> ~r.threw,
                       issued |-> Issued(profReq, profReq, authReq, authReq')]
    /\ formLoading' = FALSE
    /\ UNCHANGED <<loading, initPc, profReq, now, initRun>>

\* logout() of the context, callable by any consumer
Logout ==
    /\ UNCHANGED outsideAuth
    /\ LET out == logout(storage, user) IN
       /\ storage' = out.storage
       /\ user' = out.user
    /\ UNCHANGED <<loading, initPc, profReq, authReq, formLoading, now, initRun>>
    /\ lastOp' = [op |-> "logout", threw |-> FALSE]

\* a direct call of isAuthenticated()
CallIsAuthenticated ==
    /\ UNCHANGED outsideAuth
    /\ LET auth == isAuthenticated(storage, now) IN
       /\ storage' = auth.storage
       /\ lastOp' = [op |-> "isAuthenticated", token |-> storage.authToken,
                     now |-> now, ret |-> auth.ret, threw |-> auth.threw]
    /\ UNCHANGED <<user, loading, initPc, profReq, authReq, formLoading, now,
                   initRun>>

\* a direct call of getUserProfile(), up to its await
CallGetUserProfile ==
    /\ UNCHANGED outsideAuth
    /\ initPc = "done"
    /\ profReq = "none"
    /\ profReq' = IF getUserProfileIssues(storage) THEN "direct" ELSE "none"
    /\ UNCHANGED <<storage, user, loading, initPc, authReq, formLoading, now,
                   initRun>>
    /\ lastOp' = [op |-> "getUserProfile", threw |-> ~getUserProfileIssues(storage),
                  issued |-> Issued(profReq, profReq', authReq, authReq')]

\* a getUserProfile() whose answer is written into the session
GetUserProfileResume_setsUser ==
    /\ UNCHANGED outsideAuth
    /\ profReq = "direct"
    /\ \E resp \in ProfileResponses :
         LET r == getUserProfile(storage, resp) IN
         /\ storage' = r.storage
         /\ user' = IF r.threw THEN user ELSE r.data
         /\ lastOp' = [op |-> "getUserProfileResume", resp |-> resp,
                       threw |-> r.threw, err |-> r.err, before |-> storage]
    /\ profReq' = "none"
    /\ UNCHANGED <<loading, initPc, authReq, formLoading, now, initRun>>

\* a direct call of getUserProfile(), after its await
GetUserProfileResume ==
    /\ UNCHANGED outsideAuth
    /\ profReq = "direct"
    /\ \E resp \in ProfileResponses :
         LET r == getUserProfile(storage, resp) IN
         /\ storage' = r.storage
         /\ lastOp' = [op |-> "getUserProfileResume", resp |-> resp,
                       threw |-> r.threw, err |-> r.err, before |-> storage]
    /\ profReq' = "none"
    /\ UNCHANGED <<user, loading, initPc, authReq, formLoading, now, initRun>>

\* time passes
Tick ==
    /\ UNCHANGED outsideAuth
    /\ now < MaxTime
    /\ now' = now + 1
    /\ UNCHANGED <<storage, user, loading, initPc, profReq, authReq,
                   formLoading, initRun, lastOp>>

\* The page is loaded again: every component state is back at its useState
\* initial value, pending requests die with the old page, localStorage
\* stays, and the mount effect calls initializeAuth
Reload ==
    /\ UNCHANGED outsideAuth
    /\ initPc # "start"
    /\ user' = Null
    /\ loading' = TRUE
    /\ initPc' = "start"
    /\ profReq' = "none"
    /\ authReq' = "none"
    /\ formLoading' = FALSE
    /\ initRun' = NoRun
    /\ UNCHANGED <<storage, now>>
    /\ lastOp' = [op |-> "reload",
                  afterLogout |-> \/ lastOp.op = "logout"
                                  \/ lastOp.op = "reload" /\ lastOp.afterLogout]

Next ==
    \/ InitializeStart
    \/ InitializeResume
    \/ \E view \in {"login", "register"} : HandleSubmit(view)
    \/ HandleSubmitResume
    \/ Logout
    \/ CallIsAuthenticated
    \/ CallGetUserProfile
    \/ GetUserProfileResume
    \/ Tick
    \/ Reload

Spec == Init /\ [][Next]_vars

\* fetch() settles: the profile request of initializeAuth gets its answer
FairSpec == Spec /\ WF_vars(InitializeResume)

TypeOK ==
    /\ storage \in [authToken : Tokens \cup {Absent},
                    user : {Absent, "undefined", "null", "{u1}", "{u2}"}]
    /\ user \in UserObjs \cup {Null, Undefined}
    /\ loading \in BOOLEAN
    /\ initPc \in {"start", "waiting", "done"}
    /\ profReq \in {"none", "init", "direct"}
    /\ authReq \in {"none", "login", "register"}
    /\ formLoading \in BOOLEAN
    /\ now \in 0..MaxTime

-----------------------------------------------------------------------------
(* Properties *)

\* initializeAuth has just returned
InitializeEnded ==
    /\ lastOp.op \in {"initialize", "initializeResume"}
    /\ initPc = "done"

\* isAuthenticated() has just been evaluated, directly or by initializeAuth
IsAuthenticatedEvaluated ==
    /\ lastOp.op \in {"isAuthenticated", "initialize"}
    /\ lastOp.token # Absent

\* C1: when the stored token is valid, a user is stored and the profile
\* verification of initializeAuth fails (network error, 401, any other
\* non-success status, unreadable body), initializeAuth ends with user = null
\* and with both storage keys removed.
C1_VerificationFailureClears ==
    (/\ InitializeEnded
     /\ lastOp.op = "initializeResume"
     /\ lastOp.resp.kind # "ok")
    => (/\ initRun.tokenValid
        /\ Truthy(initRun.storedUser)
        /\ user = Null
        /\ storage = EmptyStorage)

\* a verification answered with a status other than 401, where only logout()
\* clears the storage
C1_Witness ==
    /\ InitializeEnded
    /\ lastOp.op = "initializeResume"
    /\ lastOp.resp.kind = "otherStatus"
    /\ storage = EmptyStorage

\* C2: for a stored token whose payload decodes to an exp earlier than the
\* current time, isAuthenticated() returns false and leaves both storage keys
\* absent.
C2_ExpiredTokenRejected ==
    (/\ IsAuthenticatedEvaluated
     /\ LET payload == DecodePayload(lastOp.token) IN
        /\ ~payload.threw /\ ~payload.isNull
        /\ payload.hasExp
        /\ payload.exp < lastOp.now)
    => (/\ lastOp.ret = FALSE
        /\ storage.authToken = Absent
        /\ storage.user = Absent)

C2_Witness ==
    /\ lastOp.op = "isAuthenticated"
    /\ lastOp.token = "tExp1"
    /\ lastOp.now = 2
    /\ lastOp.ret = FALSE

\* C3: for a stored token whose payload segment cannot be decoded (missing
\* segment, invalid base64, invalid JSON), isAuthenticated() returns false,
\* throws nothing and leaves both storage keys absent.
C3_UndecodableTokenRejected ==
    (/\ IsAuthenticatedEvaluated
     /\ DecodePayload(lastOp.token).threw)
    => (/\ lastOp.ret = FALSE
        /\ lastOp.threw = FALSE
        /\ storage.authToken = Absent
        /\ storage.user = Absent)

C3_Witness ==
    /\ lastOp.op = "isAuthenticated"
    /\ lastOp.token \in {"tNoSeg", "tBadB64", "tBadJson"}
    /\ lastOp.ret = FALSE

\* C4: an initializeAuth that follows logout() ends at once with the session
\* unauthenticated and puts no request on the wire.
C4_LogoutThenInitialize ==
    (lastOp.op = "initialize" /\ lastOp.afterLogout)
    => (/\ initPc = "done"
        /\ ~loading
        /\ ~IsAuthenticatedFlag
        /\ user = Null
        /\ ~lastOp.issued
        /\ profReq = "none"
        /\ authReq = "none")

C4_Witness ==
    /\ lastOp.op = "initialize"
    /\ lastOp.afterLogout
    /\ initPc = "done"

\* C6: when initializeAuth ends authenticated, its profile verification was
\* issued and answered successfully and the user is the verified profile;
\* when the verification failed, it ends unauthenticated.
C6_AuthenticatedOnlyIfVerified ==
    InitializeEnded =>
        /\ IsAuthenticatedFlag =>
             /\ initRun.requested
             /\ initRun.verify = "ok"
             /\ lastOp.op = "initializeResume"
             /\ user = lastOp.resp.data
        /\ initRun.verify \notin {"none", "ok"} => ~IsAuthenticatedFlag

C6_Witness ==
    /\ InitializeEnded
    /\ IsAuthenticatedFlag
    /\ initRun.verify = "ok"

\* C7: login(response) with a response that carries a token and a user
\* object makes isAuthenticated true and the exposed user equal to
\* response.user, and issues no request.
C7_LoginSetsUser ==
    (/\ lastOp.op = "submitResume"
     /\ lastOp.loginCalled
     /\ lastOp.resp.token # Undefined
     /\ lastOp.resp.user \in UserObjs)
    => (/\ IsAuthenticatedFlag
        /\ user = lastOp.resp.user
        /\ ~lastOp.issued
        /\ authReq = "none")

C7_Witness ==
    /\ lastOp.op = "submitResume"
    /\ lastOp.loginCalled
    /\ lastOp.resp.token = "tExp2"
    /\ lastOp.resp.user = "u2"
    /\ user = "u2"

\* C8: logout() leaves both storage keys absent and user null, does not
\* throw, and a second logout() changes nothing; in every state logout is
\* idempotent.
C8_LogoutClearsAndIsIdempotent ==
    /\ lastOp.op = "logout" =>
         /\ storage.authToken = Absent
         /\ storage.user = Absent
         /\ user = Null
         /\ ~lastOp.threw
         /\ logout(storage, user) = [storage |-> storage, user |-> user]
    /\ LET once == logout(storage, user) IN
       logout(once.storage, once.user) = once

C8_Witness ==
    /\ lastOp.op = "logout"
    /\ storage = EmptyStorage
    /\ initPc = "done"

\* C9: once registerUser or loginUser has completed on a successful response
\* whose body carries a token t, getAuthToken() returns t.
C9_TokenRoundTrip ==
    (/\ lastOp.op = "submitResume"
     /\ lastOp.resp.kind = "ok"
     /\ lastOp.resp.token # Undefined)
    => getAuthToken(storage) = lastOp.resp.token

C9_Witness ==
    /\ lastOp.op = "submitResume"
    /\ lastOp.view = "register"
    /\ lastOp.resp.kind = "ok"
    /\ lastOp.resp.token = "tNoSeg"
    /\ getAuthToken(storage) = "tNoSeg"

\* C10: between operations the storage key authToken is present exactly when
\* the storage key user is present.
C10_KeysPresentTogether ==
    (storage.authToken = Absent) <=> (storage.user = Absent)

\* a 401 answer to getUserProfile() that found both keys present
C10_Witness ==
    /\ lastOp.op = "getUserProfileResume"
    /\ lastOp.resp.kind = "401"
    /\ lastOp.before.authToken # Absent
    /\ lastOp.before.user # Absent
    /\ storage = EmptyStorage

\* the state half of C5
C5_LoadingClearedOnce ==
    /\ initPc = "done" =>
         /\ ~loading
         /\ initRun.setLoadingCalls = 1
         /\ initRun.lastChange = "setLoading"
         /\ ~initRun.propagated
    /\ initPc # "done" =>
         /\ loading
         /\ initRun.setLoadingCalls = 0

\* C5: on every branch initializeAuth ends (once its profile request, if
\* any, has settled) without letting an error out, and it has then set
\* loading to false exactly once, as its last state change; before its end
\* loading has not been touched.
C5_InitializeAlwaysCompletes ==
    /\ []C5_LoadingClearedOnce
    /\ (initPc = "waiting") ~> (initPc \in {"done", "start"})

\* the branch where the stored user entry does not parse and the outer catch
\* takes over
C5_Witness ==
    /\ InitializeEnded
    /\ lastOp.op = "initialize"
    /\ lastOp.ret = TRUE
    /\ storage.user = "undefined"
    /\ ~loading

\* C21: once loading is false, only a new boot of the page makes it true
\* again; no login, logout or answer to a request does.
C21_LoadingNeverReentered ==
    [][(~loading /\ loading') => lastOp'.op = "reload"]_vars

\* a form submission has been answered after the boot and loading is false
C21_Witness ==
    /\ lastOp.op = "submitResume"
    /\ initPc = "done"
    /\ ~loading

\* C22: once loading is false, the session goes from user null to a user
\* only in the step of handleSubmit that calls login().
C22_AuthenticatedOnlyByLogin ==
    [][(~loading /\ ~Truthy(user) /\ Truthy(user')) =>
          (lastOp'.op = "submitResume" /\ lastOp'.loginCalled)]_vars

\* login() has just made the session authenticated
C22_Witness ==
    /\ lastOp.op = "submitResume"
    /\ lastOp.loginCalled
    /\ ~loading
    /\ Truthy(user)

\* C23 as stated: when initializeAuth finds a stored token that decodes to
\* an unexpired exp, it requests the profile before it ends, whatever the
\* stored user entry is, and a run answered with a profile or with a failure
\* ends with the verified profile as user, or with user null and the
\* storage cleared.
C23_ValidTokenIsVerified ==
    /\ ( /\ InitializeEnded
         /\ lastOp.op = "initialize"
         /\ lastOp.ret
         /\ DecodePayload(lastOp.token).hasExp ) =>
           initRun.requested
    /\ ( /\ InitializeEnded
         /\ lastOp.op = "initializeResume"
         /\ lastOp.resp.data # Null ) =>
           \/ lastOp.resp.kind = "ok" /\ user = lastOp.resp.data
           \/ user = Null /\ storage = EmptyStorage

\* C25 as stated: after initializeAuth, a form submission's answer or a
\* logout, with loading false and no submission waiting, the user is set
\* exactly when a token is stored.
C25_UserIffTokenStored ==
    ( /\ lastOp.op \in {"initialize", "initializeResume", "submitResume",
                        "logout"}
      /\ ~loading
      /\ authReq = "none" ) =>
        (Truthy(user) <=> storage.authToken # Absent)

\* C26 as stated: isAuthenticated() returns true only for a token whose
\* payload decodes and holds an exp that is not earlier than the current
\* time.
C26_TrueOnlyWithUnexpiredExp ==
    (IsAuthenticatedEvaluated /\ lastOp.ret) =>
        LET payload == DecodePayload(lastOp.token) IN
        /\ ~payload.threw
        /\ ~payload.isNull
        /\ payload.hasExp
        /\ payload.exp >= lastOp.now

-----------------------------------------------------------------------------
(* The API client: every request function of auth-service.js,              *)
(* MainChatArea-api.js and news-api.js called on its own                   *)

\* how far the model lets a request wait, and the step of its clock
MaxElapsedMs == 40000
TickMs == 5000

\* fetchWithTimeout's default timeoutMs, and the value the news calls pass
DefaultTimeoutMs == 30000
NewsTimeoutMs == 35000

AuthOps == {"registerUser", "loginUser"}
ChatOps == {"getAIMemory", "createNewChat", "getAllChats", "getChatById",
            "saveMessage"}
NewsOps == {"getNewsFeed", "getUserPreferences", "updateUserPreferences",
            "addMonitoringTopic", "removeMonitoringTopic", "getUrgentNews"}
ApiOps == AuthOps \cup {"getUserProfile"} \cup ChatOps \cup NewsOps

\* a request function that fetches through fetchWithTimeout on every op
HasTimer_everyOp(op) == TRUE

\* the request function fetches through fetchWithTimeout
HasTimer(op) == op \in NewsOps

\* the timeoutMs its fetchWithTimeout call runs with
TimeoutMs(op) ==
    IF op \in {"getNewsFeed", "getUrgentNews"} THEN NewsTimeoutMs
    ELSE DefaultTimeoutMs

TimedOutMessage == "Request timed out. Please try again."
ServerMessage == "<error field of the response body>"
ParseErrorMessage == "<SyntaxError of response.json()>"
NetworkErrorMessage == "<TypeError of fetch()>"

\* the message each request function throws by itself
GenericMessage(op) ==
    CASE op = "registerUser"          -> "Registration failed"
      [] op = "loginUser"             -> "Login failed"
      [] op = "getUserProfile"        -> "Failed to fetch profile"
      [] op = "getAIMemory"           -> "Failed to fetch AI memory"
      [] op = "createNewChat"         -> "Failed to create new chat"
      [] op = "getAllChats"           -> "Failed to fetch chats"
      [] op = "getChatById"           -> "Failed to fetch chat"
      [] op = "saveMessage"           -> "Failed to save message or get AI response"
      [] op = "getNewsFeed"           -> "Failed to fetch news feed"
      [] op = "getUserPreferences"    -> "Failed to fetch user preferences"
      [] op = "updateUserPreferences" -> "Failed to update user preferences"
      [] op = "addMonitoringTopic"    -> "Failed to add monitoring topic"
      [] op = "removeMonitoringTopic" -> "Failed to remove monitoring topic"
      [] op = "getUrgentNews"         -> "Failed to fetch urgent news"

NoAuthorization == [scheme |-> "none", token |-> Absent]

\* 'Authorization': `Bearer ${token}`
Bearer(token) == [scheme |-> "Bearer", token |-> token]

\* getAuthHeaders() that always adds the header
getAuthHeaders_always(st) == Bearer(st.authToken)

\* getAuthHeaders() of news-api.js
getAuthHeadersNews(st) ==
    IF st.authToken # Absent THEN Bearer(st.authToken) ELSE NoAuthorization

\* getAuthHeaders() of MainChatArea-api.js
getAuthHeadersChat(st) ==
    IF st.authToken # Absent THEN Bearer(st.authToken) ELSE NoAuthorization

\* the Authorization header each request function sends
RequestHeader(op, st) ==
    CASE op \in AuthOps         -> NoAuthorization
      [] op = "getUserProfile"  -> Bearer(st.authToken)
      [] op \in ChatOps         -> getAuthHeadersChat(st)
      [] op \in NewsOps         -> getAuthHeadersNews(st)

\* What fetch() and response.json() can produce for any request: no answer
\* at all, a non-success status with a body, a success status with a body
ApiResponses ==
    [kind : {"network"}, status : {0}, body : {"none"},
     token : {Undefined}, user : {Undefined}]
    \cup
    [kind : {"http"}, status : {401, 500},
     body : {"jsonError", "jsonNoError", "notJson"},
     token : {Undefined}, user : {Undefined}]
    \cup
    [kind : {"ok"}, status : {200}, body : {"json"},
     token : {Undefined, "tExp2"}, user : {Undefined, "u1"}]
    \cup
    [kind : {"ok"}, status : {200}, body : {"notJson"},
     token : {Undefined}, user : {Undefined}]

\* the same answer as registerUser and loginUser see it
AsAuthResponse(resp) ==
    [kind  |-> CASE resp.kind = "network" -> "network"
                 [] resp.kind = "http"    -> "httpError"
                 [] resp.kind = "ok" /\ resp.body = "notJson" -> "okBadJson"
                 [] resp.kind = "ok" /\ resp.body # "notJson" -> "ok",
     token |-> resp.token,
     user  |-> resp.user]

\* the same answer as getUserProfile sees it
AsProfileResponse(resp) ==
    [kind |-> CASE resp.kind = "network" -> "network"
                [] resp.kind = "http" /\ resp.status = 401 -> "401"
                [] resp.kind = "http" /\ resp.status # 401 -> "otherStatus"
                [] resp.kind = "ok" /\ resp.body = "notJson" -> "okBadJson"
                [] resp.kind = "ok" /\ resp.body # "notJson" -> "ok",
     data |-> IF resp.kind = "ok" /\ resp.body # "notJson" /\ resp.user # Undefined
              THEN resp.user ELSE Null]

\* the error registerUser and loginUser end with ("" when they return):
\* const error = await response.json(); throw new Error(error.error || generic)
AuthCallError(op, resp) ==
    CASE resp.kind = "network" -> NetworkErrorMessage
      [] resp.kind = "http" /\ resp.body = "jsonError"   -> ServerMessage
      [] resp.kind = "http" /\ resp.body = "jsonNoError" -> GenericMessage(op)
      [] resp.kind = "http" /\ resp.body = "notJson"     -> ParseErrorMessage
      [] resp.kind = "ok" /\ resp.body = "notJson"       -> ParseErrorMessage
      [] resp.kind = "ok" /\ resp.body # "notJson"       -> ""

\* the error every function of MainChatArea-api.js and news-api.js ends
\* with ("" when it returns): if (!response.ok) throw new Error(generic)
PlainCallError(op, resp) ==
    CASE resp.kind = "network" -> NetworkErrorMessage
      [] resp.kind = "http"    -> GenericMessage(op)
      [] resp.kind = "ok" /\ resp.body = "notJson" -> ParseErrorMessage
      [] resp.kind = "ok" /\ resp.body # "notJson" -> ""

\* a request function after its await: the error it throws and the storage
\* it leaves
ApiOutcome(op, st, resp) ==
    CASE op = "registerUser" ->
            [err |-> AuthCallError(op, resp),
             storage |-> registerUser(st, AsAuthResponse(resp)).storage]
      [] op = "loginUser" ->
            [err |-> AuthCallError(op, resp),
             storage |-> loginUser(st, AsAuthResponse(resp)).storage]
      [] op = "getUserProfile" ->
            LET r == getUserProfile(st, AsProfileResponse(resp)) IN
            [err |-> IF resp.kind = "network" THEN NetworkErrorMessage
                     ELSE IF resp.kind = "ok" /\ resp.body = "notJson"
                          THEN ParseErrorMessage
                          ELSE r.err,
             storage |-> r.storage]
      [] op \in ChatOps \cup NewsOps ->
            [err |-> PlainCallError(op, resp), storage |-> st]

NoResponse == [kind |-> "none", status |-> 0, body |-> "none",
               token |-> Undefined, user |-> Undefined]

\* a request function from its call to its await
ApiCall(op) ==
    /\ UNCHANGED outsideApi
    /\ apiReq.op = "none"
    /\ IF op = "getUserProfile" /\ ~getUserProfileIssues(storage)
       THEN /\ apiReq' = apiReq
            /\ apiLast' = [op |-> op, timedOut |-> FALSE, resp |-> NoResponse,
                           err |-> "No authentication token", elapsed |-> 0,
                           before |-> storage, header |-> NoAuthorization,
                           tokenAtCall |-> storage.authToken, sent |-> FALSE]
       ELSE /\ apiReq' = [op |-> op, header |-> RequestHeader(op, storage),
                          tokenAtCall |-> storage.authToken, elapsed |-> 0]
            /\ apiLast' = apiLast
    /\ UNCHANGED authVars

\* time passes for the waiting request; the timer of fetchWithTimeout does
\* not let it wait beyond its timeoutMs
ApiTick ==
    /\ UNCHANGED outsideApi
    /\ apiReq.op # "none"
    /\ apiReq.elapsed < MaxElapsedMs
    /\ ~(HasTimer(apiReq.op) /\ apiReq.elapsed >= TimeoutMs(apiReq.op))
    /\ apiReq' = [apiReq EXCEPT !.elapsed = @ + TickMs]
    /\ UNCHANGED <<authVars, apiLast>>

\* setTimeout(() => controller.abort(), timeoutMs) fires: fetch rejects with
\* an AbortError, fetchWithTimeout throws the timed-out error
ApiTimeout ==
    /\ UNCHANGED outsideApi
    /\ apiReq.op # "none"
    /\ HasTimer(apiReq.op)
    /\ apiReq.elapsed >= TimeoutMs(apiReq.op)
    /\ apiLast' = [op |-> apiReq.op, timedOut |-> TRUE, resp |-> NoResponse,
                   err |-> TimedOutMessage, elapsed |-> apiReq.elapsed,
                   before |-> storage, header |-> apiReq.header,
                   tokenAtCall |-> apiReq.tokenAtCall, sent |-> TRUE]
    /\ apiReq' = NoReq
    /\ UNCHANGED authVars

\* the answer arrives and the request function runs to its end
ApiRespond ==
    /\ UNCHANGED outsideApi
    /\ apiReq.op # "none"
    /\ \E resp \in ApiResponses :
         LET out == ApiOutcome(apiReq.op, storage, resp) IN
         /\ storage' = out.storage
         /\ apiLast' = [op |-> apiReq.op, timedOut |-> FALSE, resp |-> resp,
                        err |-> out.err, elapsed |-> 0,
                        before |-> storage, header |-> apiReq.header,
                        tokenAtCall |-> apiReq.tokenAtCall, sent |-> TRUE]
    /\ apiReq' = NoReq
    /\ UNCHANGED <<user, loading, initPc, profReq, authReq, formLoading, now,
                   initRun, lastOp>>

\* logoutUser() called between two requests or during one
ApiLogoutUser ==
    /\ UNCHANGED outsideApi
    /\ storage # EmptyStorage
    /\ storage' = logoutUser(storage)
    /\ apiLast' = [op |-> "logoutUser", timedOut |-> FALSE, resp |-> NoResponse,
                   err |-> "", elapsed |-> 0, before |-> storage,
                   header |-> NoAuthorization, tokenAtCall |-> storage.authToken,
                   sent |-> FALSE]
    /\ UNCHANGED <<user, loading, initPc, profReq, authReq, formLoading, now,
                   initRun, lastOp, apiReq>>

ApiNext ==
    \/ \E op \in ApiOps : ApiCall(op)
    \/ ApiTick
    \/ ApiTimeout
    \/ ApiRespond
    \/ ApiLogoutUser

ApiSpec == Init /\ [][ApiNext]_vars

-----------------------------------------------------------------------------
(* Properties of the API client *)

\* a request function has just ended on an answer of the server
ApiAnswered ==
    /\ apiLast.op \in ApiOps
    /\ apiLast.sent
    /\ ~apiLast.timedOut

\* C12 as stated: only getNewsFeed and getUrgentNews are ever aborted by a
\* client-side timer.
C12_OnlyNewsFeedsTimeOut ==
    (apiLast.op \in ApiOps /\ apiLast.timedOut)
    => apiLast.op \in {"getNewsFeed", "getUrgentNews"}

\* C12: getNewsFeed and getUrgentNews are aborted after 35000 ms without an
\* answer; getUserPreferences, updateUserPreferences, addMonitoringTopic and
\* removeMonitoringTopic after 30000 ms; registerUser, loginUser,
\* getUserProfile, the chat functions and getAIMemory are never aborted by a
\* client-side timer, however long they wait.
C12_TimersByFunction ==
    /\ (apiLast.op \in ApiOps /\ apiLast.timedOut) =>
         \/ /\ apiLast.op \in {"getNewsFeed", "getUrgentNews"}
            /\ apiLast.elapsed >= 35000
         \/ /\ apiLast.op \in {"getUserPreferences", "updateUserPreferences",
                               "addMonitoringTopic", "removeMonitoringTopic"}
            /\ apiLast.elapsed >= 30000
    /\ apiReq.op \in {"getNewsFeed", "getUrgentNews"} =>
         apiReq.elapsed < 35000 + TickMs
    /\ apiReq.op \in {"getUserPreferences", "updateUserPreferences",
                      "addMonitoringTopic", "removeMonitoringTopic"} =>
         apiReq.elapsed < 30000 + TickMs

\* getUserPreferences aborted by its 30000 ms timer
C12_Witness ==
    /\ apiLast.op = "getUserPreferences"
    /\ apiLast.timedOut
    /\ apiLast.elapsed >= 30000
    /\ apiLast.elapsed < 35000
    /\ apiLast.err = TimedOutMessage

\* C16: a request carries Authorization: Bearer <token> exactly when
\* authToken was in the storage when the function was called, with that
\* token; registerUser and loginUser never carry it.
C16_BearerIffTokenStored ==
    apiReq.op # "none" =>
        /\ apiReq.op \in AuthOps =>
             apiReq.header = [scheme |-> "none", token |-> Absent]
        /\ (apiReq.op \notin AuthOps /\ apiReq.tokenAtCall # Absent) =>
             apiReq.header = [scheme |-> "Bearer", token |-> apiReq.tokenAtCall]
        /\ (apiReq.op \notin AuthOps /\ apiReq.tokenAtCall = Absent) =>
             apiReq.header = [scheme |-> "none", token |-> Absent]

\* registerUser called while a token is stored
C16_Witness ==
    /\ apiReq.op = "registerUser"
    /\ apiReq.tokenAtCall = "tExp2"
    /\ apiReq.header.scheme = "none"
    /\ storage.authToken = "tExp2"

\* C17 as stated: on a non-success status every request function fails with
\* the server's message when the body carries one, and with its own generic
\* message only when the body carries none.
C17_ServerMessageCarried ==
    (ApiAnswered /\ apiLast.resp.kind = "http") =>
        apiLast.err = IF apiLast.resp.body = "jsonError"
                      THEN ServerMessage
                      ELSE GenericMessage(apiLast.op)

\* C19 as stated: a 401 answer to any call that carried the stored token
\* (chat, news, preferences, monitoring, AI memory, profile) ends in the
\* session-expired error and not in the generic one.
C19_UnauthorizedIsSessionExpired ==
    (/\ ApiAnswered
     /\ apiLast.op \notin AuthOps
     /\ apiLast.tokenAtCall # Absent
     /\ apiLast.resp.kind = "http"
     /\ apiLast.resp.status = 401)
    => apiLast.err = "Session expired"

\* C20: registerUser and loginUser leave both storage keys as they were
\* unless the answer is a success whose body carries a token, in which case
\* they store that token.
C20_AuthWritesOnlyOnToken ==
    (apiLast.op \in AuthOps /\ apiLast.sent) =>
        IF /\ apiLast.resp.kind = "ok"
           /\ apiLast.resp.body = "json"
           /\ apiLast.resp.token # Undefined
        THEN storage.authToken = apiLast.resp.token
        ELSE storage = apiLast.before

\* a successful login answer without a token, over a stored session
C20_Witness ==
    /\ apiLast.op = "loginUser"
    /\ apiLast.resp.kind = "ok"
    /\ apiLast.resp.token = Undefined
    /\ apiLast.before.authToken = "tExp2"
    /\ storage = apiLast.before

\* C18: getUserProfile() on a 401 removes both storage keys and fails with
\* "Session expired"; on another non-success status it fails with another
\* error and leaves the storage alone; without a stored token it fails
\* and sends nothing.
C18_ProfileFailures ==
    /\ (lastOp.op = "getUserProfileResume" /\ lastOp.resp.kind = "401") =>
         /\ lastOp.threw
         /\ lastOp.err = "Session expired"
         /\ storage.authToken = Absent
         /\ storage.user = Absent
    /\ (lastOp.op = "getUserProfileResume" /\ lastOp.resp.kind = "otherStatus") =>
         /\ lastOp.threw
         /\ lastOp.err # "Session expired"
         /\ storage = lastOp.before
    /\ (lastOp.op = "getUserProfile" /\ storage.authToken = Absent) =>
         /\ lastOp.threw
         /\ ~lastOp.issued
         /\ profReq = "none"
    /\ (lastOp.op = "getUserProfile" /\ storage.authToken # Absent) =>
         /\ ~lastOp.threw
         /\ lastOp.issued

\* a status other than 401 that found a session stored
C18_Witness ==
    /\ lastOp.op = "getUserProfileResume"
    /\ lastOp.resp.kind = "otherStatus"
    /\ lastOp.before.authToken # Absent
    /\ storage = lastOp.before

-----------------------------------------------------------------------------
(* NewsFeed.jsx over getNewsFeed and getUrgentNews *)

\* how many news requests the model lets be on the wire at once
MaxFeedReqs == 2

\* the request function behind each kind of load
FeedOp(kind) == IF kind = "urgent" THEN "getUrgentNews" ELSE "getNewsFeed"

\* the article lists a server may answer with
FeedData(kind) == IF kind = "urgent" THEN {"urgent1"} ELSE {"feed1", "feed2"}

FeedResponses(kind) ==
    [kind : {"network", "http", "badJson"}, data : {Undefined}]
    \cup
    [kind : {"ok"}, data : FeedData(kind)]

\* the error getNewsFeed / getUrgentNews ends with ("" when it returns)
FeedCallError(op, resp) ==
    CASE resp.kind = "network" -> NetworkErrorMessage
      [] resp.kind = "http"    -> GenericMessage(op)
      [] resp.kind = "badJson" -> ParseErrorMessage
      [] resp.kind = "ok"      -> ""

\* what the catch block of each load writes into `error`
FeedErrorText(kind) ==
    CASE kind = "load"    -> "Failed to load news."
      [] kind = "refresh" -> "Refresh failed."
      [] kind = "urgent"  -> "Failed to load urgent news."

\* loadArticles up to its await
LoadArticlesBegin(f) == [f EXCEPT !.loading = TRUE, !.error = Null]

\* a load whose catch block only logs
FeedSettle_catchOnlyLogs(f, kind, err, data) ==
    LET f1 == IF err = "" THEN [f EXCEPT !.articles = data] ELSE f
    IN IF kind = "refresh" THEN [f1 EXCEPT !.refreshing = FALSE]
       ELSE [f1 EXCEPT !.loading = FALSE]

\* a load after its await: try / catch / finally
FeedSettle(f, kind, err, data) ==
    LET f1 == IF err = "" THEN [f EXCEPT !.articles = data]
              ELSE [f EXCEPT !.error = FeedErrorText(kind)]
    IN IF kind = "refresh" THEN [f1 EXCEPT !.refreshing = FALSE]
       ELSE [f1 EXCEPT !.loading = FALSE]

\* an aborted fetch that still hands its answer to the caller
LateAnswerEffect_applied(f, data) == [f EXCEPT !.articles = data]

\* the answer to a request whose fetch was aborted: the promise is already
\* rejected, nothing is waiting for it
LateAnswerEffect(f, data) == f

\* latest marks the request of the last handleFilterChange call
NewRequest(kind) ==
    [kind |-> kind, st |-> "pending", elapsed |-> 0, latest |-> FALSE]

\* the requests on the wire once a newer handleFilterChange call is made
Superseded(reqs) == {[r EXCEPT !.latest = FALSE] : r \in reqs}

\* how the load of the last handleFilterChange call stands once request r
\* has ended with err and data
FilterLoadAfter(r, err, data) ==
    IF ~r.latest THEN filterLoad
    ELSE IF err = "" THEN [st |-> "ok", data |-> data]
    ELSE [st |-> "failed", data |-> Undefined]

CanSend(kind) ==
    /\ Cardinality(feedReqs) < MaxFeedReqs
    /\ NewRequest(kind) \notin feedReqs

\* the mount effect: loadArticles()
NewsMount ==
    /\ UNCHANGED outsideNews
    /\ feedLast.ev = "none"
    /\ feed' = LoadArticlesBegin(feed)
    /\ feedReqs' = feedReqs \cup {NewRequest("load")}
    /\ feedLast' = [ev |-> "call", kind |-> "load"]
    /\ UNCHANGED filterLoad

\* handleRefresh up to its await; the button is disabled while refreshing
HandleRefresh ==
    /\ UNCHANGED outsideNews
    /\ feedLast.ev # "none"
    /\ ~feed.refreshing
    /\ CanSend("refresh")
    /\ feed' = [feed EXCEPT !.refreshing = TRUE]
    /\ feedReqs' = feedReqs \cup {NewRequest("refresh")}
    /\ feedLast' = [ev |-> "call", kind |-> "refresh"]
    /\ UNCHANGED filterLoad

\* handleFilterChange(value) up to its await
HandleFilterChange(value) ==
    /\ UNCHANGED outsideNews
    /\ feedLast.ev # "none"
    /\ LET kind == IF value = "urgent" THEN "urgent" ELSE "load" IN
       /\ CanSend(kind)
       /\ Cardinality(Superseded(feedReqs)) = Cardinality(feedReqs)
       /\ feed' = IF value = "urgent"
                  THEN [feed EXCEPT !.filter = value, !.loading = TRUE]
                  ELSE LoadArticlesBegin([feed EXCEPT !.filter = value])
       /\ feedReqs' = Superseded(feedReqs)
                         \cup {[NewRequest(kind) EXCEPT !.latest = TRUE]}
       /\ feedLast' = [ev |-> "call", kind |-> kind]
       /\ filterLoad' = [st |-> "waiting", data |-> Undefined]

\* time passes for every request on the wire; no timer lets its request
\* wait beyond timeoutMs
NewsTick ==
    /\ UNCHANGED outsideNews
    /\ \E r \in feedReqs : r.st = "pending"
    /\ \A r \in feedReqs : r.st = "pending" => r.elapsed < TimeoutMs(FeedOp(r.kind))
    /\ feedReqs' = {IF r.st = "pending" THEN [r EXCEPT !.elapsed = @ + TickMs]
                    ELSE r : r \in feedReqs}
    /\ UNCHANGED <<feed, feedLast, filterLoad>>

\* the answer to a request arrives and its load runs to its end
FeedRespond ==
    /\ UNCHANGED outsideNews
    /\ \E r \in feedReqs :
         /\ r.st = "pending"
         /\ \E resp \in FeedResponses(r.kind) :
              LET err == FeedCallError(FeedOp(r.kind), resp) IN
              /\ feed' = FeedSettle(feed, r.kind, err, resp.data)
              /\ feedReqs' = feedReqs \ {r}
              /\ feedLast' = [ev |-> "answer", kind |-> r.kind, err |-> err,
                              data |-> resp.data]
              /\ filterLoad' = FilterLoadAfter(r, err, resp.data)

\* the timer of fetchWithTimeout fires: the fetch is aborted and the load
\* ends in its catch block; the server may still answer
FeedTimeout ==
    /\ UNCHANGED outsideNews
    /\ \E r \in feedReqs :
         /\ r.st = "pending"
         /\ HasTimer(FeedOp(r.kind))
         /\ r.elapsed >= TimeoutMs(FeedOp(r.kind))
         /\ [NewRequest(r.kind) EXCEPT !.st = "aborted"] \notin feedReqs
         /\ feed' = FeedSettle(feed, r.kind, TimedOutMessage, Undefined)
         /\ feedReqs' = (feedReqs \ {r})
                           \cup {[NewRequest(r.kind) EXCEPT !.st = "aborted"]}
         /\ filterLoad' = FilterLoadAfter(r, TimedOutMessage, Undefined)
         /\ feedLast' = [ev |-> "timeout", kind |-> r.kind,
                         err |-> TimedOutMessage, elapsed |-> r.elapsed,
                         articlesBefore |-> feed.articles]

\* the answer to an aborted request reaches the browser
FeedLateAnswer ==
    /\ UNCHANGED outsideNews
    /\ \E r \in feedReqs :
         /\ r.st = "aborted"
         /\ \E data \in FeedData(r.kind) :
              /\ feed' = LateAnswerEffect(feed, data)
              /\ feedLast' = [ev |-> "late", kind |-> r.kind, data |-> data,
                              before |-> feed]
         /\ feedReqs' = feedReqs \ {r}
    /\ UNCHANGED filterLoad

NewsNext ==
    \/ NewsMount
    \/ HandleRefresh
    \/ \E value \in {"all", "urgent", "relevant"} : HandleFilterChange(value)
    \/ NewsTick
    \/ FeedRespond
    \/ FeedTimeout
    \/ FeedLateAnswer

NewsSpec == Init /\ [][NewsNext]_vars

\* C11: a getNewsFeed request that has waited 35000 ms without an answer is
\* aborted and fails with the timed-out error, which is not the error of a
\* refused request; the abort leaves the articles as they were, and an answer
\* that arrives after the abort changes nothing in the feed.
C11_TimeoutAbortsFeedRequest ==
    /\ feedLast.ev = "timeout" =>
         /\ feedLast.elapsed >= 35000
         /\ feedLast.err = "Request timed out. Please try again."
         /\ feedLast.err # GenericMessage(FeedOp(feedLast.kind))
         /\ feed.articles = feedLast.articlesBefore
    /\ feedLast.ev = "late" => feed = feedLast.before
    /\ \A r \in feedReqs :
         r.st = "pending" => r.elapsed < 35000 + TickMs

\* the server answers an aborted getNewsFeed with articles the feed does not
\* hold
C11_Witness ==
    /\ feedLast.ev = "late"
    /\ feedLast.kind = "load"
    /\ feedLast.data # feed.articles
    /\ feed.error = "Failed to load news."

-----------------------------------------------------------------------------
(* AIModal: the chat panel *)

\* the message handleSendMessage builds; its id is the reading of Date.now()
UserMessage(k, clock) == [id |-> clock, role |-> "user", send |-> k]

\* the copy of the user's message the server keeps in the chat; the server
\* names its messages itself, never with a clock reading of the client
ServerUserMessage(k) == [id |-> 100 + k, role |-> "user", send |-> k]

\* the assistant's reply saveMessage resolves with
AiResponse(k) == [id |-> 200 + k, role |-> "assistant", send |-> k]

\* prev.filter(msg => msg.id !== userMessage.id)
RemoveById(msgs, id) == SelectSeq(msgs, LAMBDA m : m.id # id)

\* the loadChat effect when currentChatId goes from oldId to newId: a truthy
\* id sends getChatById(newId)
EffectLoads(oldId, newId) ==
    IF newId # oldId /\ newId # 0 THEN {newId} ELSE {}

\* the loadChat effect when currentChatId goes from oldId to newId: null
\* empties the list
EffectMessages(oldId, newId, msgs) ==
    IF newId # oldId /\ newId = 0 THEN <<>> ELSE msgs

\* the sends whose saveMessage is on the wire for chat c
InFlight(c) ==
    {j \in 1..MaxSends : sends[j].pc = "saving" /\ sends[j].chatId = c}

\* the sends that are waiting for their createNewChat
Creating == {j \in 1..MaxSends : sends[j].pc = "creating"}

\* what Date.now() can return: the millisecond of the last reading, or a
\* later one
ClockReadings == {chatClock, chatClock + 1}

ChatEvent(ev, k, before) == [ev |-> ev, send |-> k, before |-> before]

\* anything but the rollback of a send
OtherChatEvent == ChatEvent("other", 0, <<>>)

\* the modal opens: the open effect calls loadAllChats
OpenModal ==
    /\ UNCHANGED outsideChat
    /\ modal = "closed"
    /\ modal' = "listing"
    /\ messages' = IF currentChatId = 0 THEN <<>> ELSE messages
    /\ chatLast' = OtherChatEvent
    /\ UNCHANGED <<chats, currentChatId, sends, chatLoads, srvChats,
                   chatClock>>

\* getAllChats answers; the list was read when the server held the chats
\* 1..c, or none of them
LoadAllChatsRespond ==
    /\ UNCHANGED outsideChat
    /\ modal = "listing"
    /\ \E c \in 0..Len(srvChats) :
         /\ chats' = 1..c
         /\ currentChatId' = c
         /\ messages' = EffectMessages(currentChatId, c, messages)
         /\ chatLoads' = chatLoads \cup EffectLoads(currentChatId, c)
    /\ modal' = "open"
    /\ chatLast' = OtherChatEvent
    /\ UNCHANGED <<sends, srvChats, chatClock>>

\* getAllChats rejects: the catch only logs
LoadAllChatsFail ==
    /\ UNCHANGED outsideChat
    /\ modal = "listing"
    /\ modal' = "open"
    /\ chatLast' = OtherChatEvent
    /\ UNCHANGED <<chats, currentChatId, messages, sends, chatLoads,
                   srvChats, chatClock>>

\* handleSendMessage(text): without a chat it awaits handleCreateNewChat;
\* with one it appends the optimistic message and sends saveMessage
HandleSendMessage(k) ==
    /\ UNCHANGED outsideChat
    /\ modal # "closed"
    /\ sends[k].pc = "idle"
    /\ k > 1 => sends[k - 1].pc # "idle"
    /\ IF currentChatId = 0
       THEN /\ sends' = [sends EXCEPT ![k] =
                 [IdleSend EXCEPT !.pc = "creating", !.created = TRUE,
                                  !.overlapped = Creating # {}]]
            /\ UNCHANGED <<messages, chatClock>>
       ELSE \E t \in ClockReadings :
            /\ chatClock' = t
            /\ sends' = [sends EXCEPT ![k] =
                 [IdleSend EXCEPT !.pc = "saving",
                                  !.chatId = currentChatId,
                                  !.msgId = t,
                                  !.overlapped =
                                      InFlight(currentChatId) # {}]]
            /\ messages' = Append(messages, UserMessage(k, t))
    /\ chatLast' = OtherChatEvent
    /\ UNCHANGED <<modal, chats, currentChatId, chatLoads, srvChats>>

\* createNewChat of a send answers: handleCreateNewChat selects the new chat
\* and empties the list, handleSendMessage goes on to append the optimistic
\* message and send saveMessage, and the loadChat effect loads the new chat
SendCreateRespond(k) ==
    /\ UNCHANGED outsideChat
    /\ sends[k].pc = "creating"
    /\ \E t \in ClockReadings :
         LET id == Len(srvChats) + 1
         IN  /\ srvChats' = Append(srvChats, <<>>)
             /\ chats' = chats \cup {id}
             /\ currentChatId' = id
             /\ chatLoads' = chatLoads \cup EffectLoads(currentChatId, id)
             /\ chatClock' = t
             /\ sends' = [sends EXCEPT ![k].pc = "saving",
                                       ![k].chatId = id,
                                       ![k].msgId = t]
             /\ messages' = <<UserMessage(k, t)>>
    /\ chatLast' = OtherChatEvent
    /\ UNCHANGED modal

\* createNewChat of a send rejects: handleCreateNewChat returns null and
\* handleSendMessage returns
SendCreateFail(k) ==
    /\ UNCHANGED outsideChat
    /\ sends[k].pc = "creating"
    /\ sends' = [sends EXCEPT ![k].pc = "abandoned"]
    /\ chatLast' = OtherChatEvent
    /\ UNCHANGED <<modal, chats, currentChatId, messages, chatLoads,
                   srvChats, chatClock>>

\* saveMessage resolves: the server has added the user's message to the
\* chat, and the assistant's reply when there is one; a truthy aiResponse
\* is appended to the list
SaveRespond(k) ==
    /\ UNCHANGED outsideChat
    /\ sends[k].pc = "saving"
    /\ \E withReply \in BOOLEAN :
         /\ srvChats' = [srvChats EXCEPT ![sends[k].chatId] =
              @ \o <<ServerUserMessage(k)>>
                \o (IF withReply THEN <<AiResponse(k)>> ELSE <<>>)]
         /\ messages' = IF withReply
                        THEN Append(messages, AiResponse(k))
                        ELSE messages
         /\ sends' = [sends EXCEPT ![k].pc = "done", ![k].reply = withReply]
    /\ chatLast' = OtherChatEvent
    /\ UNCHANGED <<modal, chats, currentChatId, chatLoads, chatClock>>

\* saveMessage rejects: the catch filters the list by the message's id
SaveFail(k) ==
    /\ UNCHANGED outsideChat
    /\ sends[k].pc = "saving"
    /\ messages' = RemoveById(messages, sends[k].msgId)
    /\ sends' = [sends EXCEPT ![k].pc = "failed"]
    /\ chatLast' = ChatEvent("sendFailed", k, messages)
    /\ UNCHANGED <<modal, chats, currentChatId, chatLoads, srvChats,
                   chatClock>>

\* getChatById resolves: setMessages(chat.messages || [])
LoadRespond ==
    /\ UNCHANGED outsideChat
    /\ \E c \in chatLoads :
         /\ messages' = srvChats[c]
         /\ chatLoads' = chatLoads \ {c}
    /\ chatLast' = OtherChatEvent
    /\ UNCHANGED <<modal, chats, currentChatId, sends, srvChats, chatClock>>

\* getChatById rejects: the catch empties the list
LoadFail ==
    /\ UNCHANGED outsideChat
    /\ \E c \in chatLoads :
         /\ messages' = <<>>
         /\ chatLoads' = chatLoads \ {c}
    /\ chatLast' = OtherChatEvent
    /\ UNCHANGED <<modal, chats, currentChatId, sends, srvChats, chatClock>>

\* onSelectChat(chatId) of the sidebar: setCurrentChatId, and the loadChat
\* effect loads the chat when the id has changed
SelectChat(c) ==
    /\ UNCHANGED outsideChat
    /\ modal # "closed"
    /\ c \in chats
    /\ c # currentChatId
    /\ currentChatId' = c
    /\ chatLoads' = chatLoads \cup EffectLoads(currentChatId, c)
    /\ chatLast' = OtherChatEvent
    /\ UNCHANGED <<modal, chats, messages, sends, srvChats, chatClock>>

ChatNext ==
    \/ OpenModal
    \/ LoadAllChatsRespond
    \/ LoadAllChatsFail
    \/ \E k \in 1..MaxSends : HandleSendMessage(k)
    \/ \E k \in 1..MaxSends : SendCreateRespond(k)
    \/ \E k \in 1..MaxSends : SendCreateFail(k)
    \/ \E k \in 1..MaxSends : SaveRespond(k)
    \/ \E k \in 1..MaxSends : SaveFail(k)
    \/ LoadRespond
    \/ LoadFail
    \/ \E c \in 1..MaxSends : SelectChat(c)

ChatSpec == Init /\ [][ChatNext]_vars

\* the positions of the list that ChatPanel renders as assistant bubbles
AssistantPositions ==
    {i \in 1..Len(messages) : messages[i].role # "user"}

\* nothing of the chat panel is on the wire
ChatSettled ==
    /\ modal = "open"
    /\ chatLoads = {}
    /\ \A j \in 1..MaxSends :
         sends[j].pc \in {"idle", "done", "failed", "abandoned"}

\* C13 as stated: a send made with no chat selected creates the chat before
\* saveMessage is issued; once everything has been answered, a send that
\* succeeded with a reply leaves its user message followed by exactly one
\* assistant reply in the list, and a send that failed leaves neither its
\* user message nor an assistant reply, wherever the getChatById load of
\* the new chat falls.
C13_SendWithoutChatSelected ==
    \A k \in 1..MaxSends :
      /\ (sends[k].created /\ sends[k].pc = "saving") =>
           sends[k].chatId \in 1..Len(srvChats)
      /\ ( /\ sends[k].created
           /\ ChatSettled
           /\ \A j \in 1..MaxSends : j # k => sends[j].pc = "idle" ) =>
           /\ (sends[k].pc = "done" /\ sends[k].reply) =>
                /\ \E i \in 1..(Len(messages) - 1) :
                     /\ messages[i].role = "user"
                     /\ messages[i].send = k
                     /\ messages[i + 1] = AiResponse(k)
                /\ Cardinality(AssistantPositions) = 1
           /\ sends[k].pc = "failed" =>
                /\ \A i \in 1..Len(messages) :
                     ~(messages[i].role = "user" /\ messages[i].send = k)
                /\ AssistantPositions = {}

\* C14 as stated: a failed send removes exactly the optimistic user message
\* of that send from the list, and every other message stays.
C14_RollbackRemovesOwnMessage ==
    chatLast.ev = "sendFailed" =>
      messages = SelectSeq(chatLast.before,
                   LAMBDA m : m # UserMessage(chatLast.send,
                                              sends[chatLast.send].msgId))

\* C15 as stated: when two sends of one chat were on the wire together and
\* both succeeded with a reply, each reply stands directly after the user
\* message that triggered it, whatever the order of arrival.
C15_ReplyFollowsOwnMessage ==
    \A j, k \in 1..MaxSends :
      ( /\ j < k
        /\ sends[j].pc = "done" /\ sends[j].reply
        /\ sends[k].pc = "done" /\ sends[k].reply
        /\ sends[j].chatId = sends[k].chatId
        /\ sends[k].overlapped
        /\ \A n \in {j, k} : \E i \in 1..Len(messages) :
             messages[i] = UserMessage(n, sends[n].msgId) ) =>
        \A n \in {j, k} : \E i \in 1..(Len(messages) - 1) :
          /\ messages[i] = UserMessage(n, sends[n].msgId)
          /\ messages[i + 1] = AiResponse(n)

\* a load has just ended in its catch block
FeedLoadFailed ==
    /\ feedLast.ev \in {"answer", "timeout"}
    /\ feedLast.err # ""

\* a getNewsFeed of loadArticles or a getUrgentNews is waiting for its answer
LoadInFlight ==
    \E r \in feedReqs : r.st = "pending" /\ r.kind # "refresh"

\* C24 as stated: when a load, a refresh or an urgent-filter load has
\* failed, the feed has loading = false and an error message.
C24_FailedLoadEndsLoading ==
    FeedLoadFailed => (~feed.loading /\ feed.error # Null)

\* C24: when a load, a refresh or an urgent-filter load has failed, the
\* feed has an error message; a failed loadArticles or urgent-filter load
\* leaves loading = false, a failed refresh leaves refreshing = false and
\* loading true only if a loadArticles or urgent-filter load is still
\* waiting for its answer.
C24_FailedLoadSetsError ==
    FeedLoadFailed =>
      /\ feed.error # Null
      /\ feedLast.kind # "refresh" => ~feed.loading
      /\ feedLast.kind = "refresh" =>
           /\ ~feed.refreshing
           /\ feed.loading => LoadInFlight

\* a refresh has failed while a load is still waiting: the spinner stays
C24_Witness ==
    /\ FeedLoadFailed
    /\ feedLast.kind = "refresh"
    /\ feed.loading
    /\ feed.error = "Refresh failed."

\* C29 as stated: when the load that ended last succeeded and no request
\* is waiting, error is null.
C29_SuccessClearsError ==
    ( /\ feedLast.ev = "answer"
      /\ feedLast.err = ""
      /\ \A r \in feedReqs : r.st # "pending" ) =>
        feed.error = Null

\* C30 as stated: once every request has ended, and the load of the last
\* filter change succeeded, the articles held are the ones that load
\* returned; and loading is true as long as a load of loadArticles or of
\* handleFilterChange is waiting for its answer.
C30_LatestFilterWins ==
    /\ ( /\ \A r \in feedReqs : r.st # "pending"
         /\ filterLoad.st = "ok"
         /\ feedLast.ev = "answer"
         /\ feedLast.kind # "refresh" ) =>
           feed.articles = filterLoad.data
    /\ LoadInFlight => feed.loading

\* C27 as stated: a handleSendMessage call made with no chat selected
\* while an earlier one is still waiting for its createNewChat sends no
\* createNewChat of its own, and both messages are saved to the same chat.
C27_OneChatForQuickSends ==
    \A j, k \in 1..MaxSends :
      (j < k /\ sends[j].created /\ sends[k].created /\ sends[k].overlapped) =>
        /\ ~(sends[j].pc = "creating" /\ sends[k].pc = "creating")
        /\ (sends[j].chatId # 0 /\ sends[k].chatId # 0) =>
             sends[j].chatId = sends[k].chatId

\* the chats whose getChatById has settled in the step
LoadsSettled == chatLoads \ chatLoads'

\* the sends whose saveMessage has settled in the step
SendsSettled ==
    {k \in 1..MaxSends : sends[k].pc = "saving" /\ sends'[k].pc # "saving"}

\* C28 as stated: while a chat B is selected, the answer or the failure of
\* a getChatById or of a saveMessage for another chat A leaves the
\* displayed list as it is.
C28_ListOfSelectedChatOnly ==
    [][ currentChatId # 0 =>
        /\ \A c \in LoadsSettled : c # currentChatId => messages' = messages
        /\ \A k \in SendsSettled :
             sends[k].chatId # currentChatId => messages' = messages ]_vars

====
